---------------------------- MODULE Spec2Model ----------------------------
(***************************************************************************)
(* Model of the Cacao Leaf Analyzer API (src/main.py): the analysis        *)
(* function analizar_hoja and the POST /analizar-hoja endpoint.            *)
(*                                                                         *)
(* Numbers.  Python floats are modelled by exact rationals [n, d] in       *)
(* lowest terms; +, *, /, <, min, max and round are the exact operations   *)
(* (round is round-half-to-even on the decimal digit asked for).  The      *)
(* model therefore does not show the last-bit effects of binary floating   *)
(* point.                                                                  *)
(*                                                                         *)
(* Images.  The bytes of an upload are modelled by what PIL makes of them: *)
(* nothing (no bytes), bytes PIL cannot identify, a file whose header      *)
(* parses but whose pixel data is cut short, or a bitmap.  A bitmap is     *)
(* given by its width, its height, the pixels of the blurred image as runs *)
(* of equal pixels (each pixel with its RGB value and the HSV value        *)
(* cv2.cvtColor gives it) and the number of pixels cv2.Canny marks as      *)
(* edges.                                                                  *)
(***************************************************************************)
EXTENDS Integers, Sequences, FiniteSets, TLC

(***************************************************************************)
(* Rational arithmetic standing for Python's float arithmetic.             *)
(***************************************************************************)
RECURSIVE GCD(_, _)
GCD(a, b) ==
    IF b = 0 THEN a ELSE GCD(b, a % b)

Q(n, d) ==
    LET g == GCD(n, d) IN [n |-> n \div g, d |-> d \div g]

QInt(k) ==
    [n |-> k, d |-> 1]

QAdd(a, b) ==
    LET g == GCD(a.d, b.d)
        fa == b.d \div g
        fb == a.d \div g
    IN  Q(a.n * fa + b.n * fb, a.d * fa)

QMul(a, b) ==
    LET g1 == GCD(a.n, b.d)
        g2 == GCD(b.n, a.d)
    IN  IF a.n = 0 \/ b.n = 0
        THEN QInt(0)
        ELSE [n |-> (a.n \div g1) * (b.n \div g2),
              d |-> (a.d \div g2) * (b.d \div g1)]

QDiv(a, k) ==
    QMul(a, [n |-> 1, d |-> k])

QLt(a, b) ==
    a.n * b.d < b.n * a.d

QGt(a, b) ==
    QLt(b, a)

QMin(a, b) ==
    IF QLt(b, a) THEN b ELSE a

QMax(a, b) ==
    IF QLt(a, b) THEN b ELSE a

Pow10(k) ==
    IF k = 0 THEN 1
    ELSE IF k = 1 THEN 10
    ELSE IF k = 2 THEN 100
    ELSE IF k = 3 THEN 1000
    ELSE 10000

\* <<f, r>>: f = floor(num * 10^k / d) and r the remainder, by long division
\* one decimal digit at a time (num < d * 10 at every step).
RECURSIVE Digits(_, _, _, _)
Digits(f, r, d, k) ==
    IF k = 0 THEN <<f, r>>
    ELSE Digits(f * 10 + ((r * 10) \div d), (r * 10) % d, d, k - 1)

\* Python's round(x, k): to k decimals, a tie going to the even digit.
QRound(x, k) ==
    LET fr == Digits(x.n \div x.d, x.n % x.d, x.d, k)
        f  == fr[1]
        r  == fr[2]
        up == (2 * r > x.d) \/ (2 * r = x.d /\ f % 2 = 1)
    IN  Q(IF up THEN f + 1 ELSE f, Pow10(k))

(***************************************************************************)
(* Feature extraction: analizar_hoja, lines 47-89.                         *)
(***************************************************************************)
\* A decimal literal of the source written in hundredths: 0.65 is Dec(65).
Dec(c) ==
    Q(c, 100)

RECURSIVE SumSeq(_, _)
SumSeq(vals, i) ==
    IF i > Len(vals) THEN 0 ELSE vals[i] + SumSeq(vals, i + 1)

\* mask.size and the pixel count of cv2.mean: width * height.
Size(img) ==
    img.width * img.height

\* cv2.mean over one channel: the sum of the channel over the pixel count.
Mean(img, ch) ==
    Q(SumSeq([i \in 1..Len(img.pix) |-> img.pix[i].n * img.pix[i].c[ch]], 1),
      Size(img))

\* cv2.inRange(hsv, lo, hi): both bounds are inclusive, on every channel.
InRange(p, lo, hi) ==
    /\ lo[1] <= p.h /\ p.h <= hi[1]
    /\ lo[2] <= p.s /\ p.s <= hi[2]
    /\ lo[3] <= p.v /\ p.v <= hi[3]

\* np.sum(mask > 0) / mask.size
MaskRatio(img, lo, hi) ==
    Q(SumSeq([i \in 1..Len(img.pix) |->
                 IF InRange(img.pix[i].c, lo, hi) THEN img.pix[i].n ELSE 0], 1),
      Size(img))

\* The measurements taken from the bitmap.  cv2.Canny gives 255 at an edge
\* pixel and 0 elsewhere, so np.mean(edges) is 255 * edges / size.
Extraer(img) ==
    [r_mean              |-> Mean(img, "r"),
     g_mean              |-> Mean(img, "g"),
     b_mean              |-> Mean(img, "b"),
     h_mean              |-> Mean(img, "h"),
     s_mean              |-> Mean(img, "s"),
     v_mean              |-> Mean(img, "v"),
     texture_score       |-> QDiv(Q(255 * img.edges, Size(img)), 255),
     brown_spot_area     |-> MaskRatio(img, <<5, 40, 20>>, <<25, 255, 120>>),
     dark_spot_area      |-> MaskRatio(img, <<0, 0, 0>>, <<180, 255, 50>>),
     yellow_area         |-> MaskRatio(img, <<20, 40, 100>>, <<35, 255, 255>>),
     healthy_green_ratio |-> MaskRatio(img, <<35, 30, 60>>, <<85, 255, 255>>)]

(***************************************************************************)
(* Decision metrics and the rule cascade: analizar_hoja, lines 91-164.     *)
(***************************************************************************)
\* The measurements with saturation_avg (line 92) and total_damage (line 95).
Metricas(m) ==
    [brown_spot_area     |-> m.brown_spot_area,
     dark_spot_area      |-> m.dark_spot_area,
     yellow_area         |-> m.yellow_area,
     healthy_green_ratio |-> m.healthy_green_ratio,
     texture_score       |-> m.texture_score,
     v_mean              |-> m.v_mean,
     saturation_avg      |-> QDiv(m.s_mean, 255),
     total_damage        |-> QAdd(QAdd(m.brown_spot_area, m.dark_spot_area),
                                  m.yellow_area)]

Rama(estado, enfermedad, color, confianza) ==
    [estado_general     |-> estado,
     posible_enfermedad |-> enfermedad,
     color_principal    |-> color,
     confianza          |-> confianza]

\* The cascade with rule 3 tested before rule 2.
DecidirModeradasPrimero(f) ==
    IF /\ QGt(f.healthy_green_ratio, Dec(65))
       /\ QLt(f.brown_spot_area, Dec(8))
       /\ QLt(f.dark_spot_area, Dec(5))
       /\ QLt(f.yellow_area, Dec(15))
       /\ QGt(f.saturation_avg, Dec(25))
    THEN Rama("Sana", "Ninguna", "verde",
              QMin(Dec(95), QAdd(Dec(70), QMul(f.healthy_green_ratio, Dec(25)))))
    ELSE IF QGt(f.brown_spot_area, Dec(8)) \/ QGt(f.dark_spot_area, Dec(6))
    THEN Rama("Posible infección fúngica inicial",
              "Etapa temprana de hongo foliar o Cercospora",
              "verde con manchas leves",
              QAdd(Dec(70), QMul(f.brown_spot_area, QInt(2))))
    ELSE IF QGt(f.brown_spot_area, Dec(12)) \/ QGt(f.dark_spot_area, Dec(10))
    THEN Rama("Enfermedad fúngica",
              "Posible Moniliasis, Phytophthora o Antracnosis",
              "verde con manchas marrones",
              QMin(Dec(92), QAdd(Dec(65), QMul(f.total_damage, Dec(150)))))
    ELSE IF QGt(f.yellow_area, Dec(25))
    THEN Rama("Deficiencia nutricional",
              "Posible falta de nitrógeno o magnesio",
              "amarillento",
              QAdd(Dec(75), QMul(f.yellow_area, Dec(60))))
    ELSE IF QGt(f.texture_score, Dec(30))
    THEN Rama("Daño físico o plaga",
              "Posible ataque de insectos masticadores",
              "verde con bordes irregulares",
              QAdd(Dec(68), QMul(f.texture_score, Dec(60))))
    ELSE IF QLt(f.saturation_avg, Dec(20)) /\ QLt(f.v_mean, QInt(100))
    THEN Rama("Estrés o envejecimiento",
              "Senescencia natural o estrés hídrico",
              "verde pálido",
              Dec(70))
    ELSE IF QGt(f.total_damage, Dec(10)) \/ QLt(f.healthy_green_ratio, Dec(50))
    THEN Rama("Posible estrés leve",
              "Monitorear evolución - síntomas no concluyentes",
              "verde variable",
              QAdd(Dec(60), QMul(f.total_damage, Dec(80))))
    ELSE Rama("Sana", "Ninguna", "verde", Dec(85))

\* The cascade without its final else: the initial values of lines 98-101
\* are what is left when no rule fires.
DecidirSinDefault(f) ==
    IF /\ QGt(f.healthy_green_ratio, Dec(65))
       /\ QLt(f.brown_spot_area, Dec(8))
       /\ QLt(f.dark_spot_area, Dec(5))
       /\ QLt(f.yellow_area, Dec(15))
       /\ QGt(f.saturation_avg, Dec(25))
    THEN Rama("Sana", "Ninguna", "verde",
              QMin(Dec(95), QAdd(Dec(70), QMul(f.healthy_green_ratio, Dec(25)))))
    ELSE IF QGt(f.brown_spot_area, Dec(12)) \/ QGt(f.dark_spot_area, Dec(10))
    THEN Rama("Enfermedad fúngica",
              "Posible Moniliasis, Phytophthora o Antracnosis",
              "verde con manchas marrones",
              QMin(Dec(92), QAdd(Dec(65), QMul(f.total_damage, Dec(150)))))
    ELSE IF QGt(f.brown_spot_area, Dec(8)) \/ QGt(f.dark_spot_area, Dec(6))
    THEN Rama("Posible infección fúngica inicial",
              "Etapa temprana de hongo foliar o Cercospora",
              "verde con manchas leves",
              QAdd(Dec(70), QMul(f.brown_spot_area, QInt(2))))
    ELSE IF QGt(f.yellow_area, Dec(25))
    THEN Rama("Deficiencia nutricional",
              "Posible falta de nitrógeno o magnesio",
              "amarillento",
              QAdd(Dec(75), QMul(f.yellow_area, Dec(60))))
    ELSE IF QGt(f.texture_score, Dec(30))
    THEN Rama("Daño físico o plaga",
              "Posible ataque de insectos masticadores",
              "verde con bordes irregulares",
              QAdd(Dec(68), QMul(f.texture_score, Dec(60))))
    ELSE IF QLt(f.saturation_avg, Dec(20)) /\ QLt(f.v_mean, QInt(100))
    THEN Rama("Estrés o envejecimiento",
              "Senescencia natural o estrés hídrico",
              "verde pálido",
              Dec(70))
    ELSE IF QGt(f.total_damage, Dec(10)) \/ QLt(f.healthy_green_ratio, Dec(50))
    THEN Rama("Posible estrés leve",
              "Monitorear evolución - síntomas no concluyentes",
              "verde variable",
              QAdd(Dec(60), QMul(f.total_damage, Dec(80))))
    ELSE Rama("", "", "", QInt(0))

\* The if / elif / else chain of lines 105-164.  estado_general,
\* posible_enfermedad, color_principal and confianza start at "", "", ""
\* and 0.0 (lines 98-101) and exactly one branch assigns all four.
Decidir(f) ==
    IF /\ QGt(f.healthy_green_ratio, Dec(65))
       /\ QLt(f.brown_spot_area, Dec(8))
       /\ QLt(f.dark_spot_area, Dec(5))
       /\ QLt(f.yellow_area, Dec(15))
       /\ QGt(f.saturation_avg, Dec(25))
    THEN Rama("Sana", "Ninguna", "verde",
              QMin(Dec(95), QAdd(Dec(70), QMul(f.healthy_green_ratio, Dec(25)))))
    ELSE IF QGt(f.brown_spot_area, Dec(12)) \/ QGt(f.dark_spot_area, Dec(10))
    THEN Rama("Enfermedad fúngica",
              "Posible Moniliasis, Phytophthora o Antracnosis",
              "verde con manchas marrones",
              QMin(Dec(92), QAdd(Dec(65), QMul(f.total_damage, Dec(150)))))
    ELSE IF QGt(f.brown_spot_area, Dec(8)) \/ QGt(f.dark_spot_area, Dec(6))
    THEN Rama("Posible infección fúngica inicial",
              "Etapa temprana de hongo foliar o Cercospora",
              "verde con manchas leves",
              QAdd(Dec(70), QMul(f.brown_spot_area, QInt(2))))
    ELSE IF QGt(f.yellow_area, Dec(25))
    THEN Rama("Deficiencia nutricional",
              "Posible falta de nitrógeno o magnesio",
              "amarillento",
              QAdd(Dec(75), QMul(f.yellow_area, Dec(60))))
    ELSE IF QGt(f.texture_score, Dec(30))
    THEN Rama("Daño físico o plaga",
              "Posible ataque de insectos masticadores",
              "verde con bordes irregulares",
              QAdd(Dec(68), QMul(f.texture_score, Dec(60))))
    ELSE IF QLt(f.saturation_avg, Dec(20)) /\ QLt(f.v_mean, QInt(100))
    THEN Rama("Estrés o envejecimiento",
              "Senescencia natural o estrés hídrico",
              "verde pálido",
              Dec(70))
    ELSE IF QGt(f.total_damage, Dec(10)) \/ QLt(f.healthy_green_ratio, Dec(50))
    THEN Rama("Posible estrés leve",
              "Monitorear evolución - síntomas no concluyentes",
              "verde variable",
              QAdd(Dec(60), QMul(f.total_damage, Dec(80))))
    ELSE Rama("Sana", "Ninguna", "verde", Dec(85))

(***************************************************************************)
(* Result assembly: analizar_hoja, lines 166-200.                          *)
(***************************************************************************)
\* round(confianza, 2) with the clamp of line 167 left out.
ProbabilidadSinLimite(confianza) ==
    QRound(confianza, 2)

\* Line 167: round(min(0.98, max(0.50, confianza)), 2)
Probabilidad(confianza) ==
    QRound(QMin(Dec(98), QMax(Dec(50), confianza)), 2)

\* The bundle with "manchas" taken from the branch that fired (through
\* the colour it set) instead of from its own threshold.
CaracteristicasPorRama(color, f) ==
    [color_principal |-> color,
     manchas         |-> IF color \in {"verde con manchas marrones",
                                       "verde con manchas leves"}
                         THEN "circulares marrones" ELSE "no significativas",
     borde           |-> IF QGt(f.texture_score, Dec(25))
                         THEN "irregular" ELSE "regular",
     textura         |-> IF QLt(f.v_mean, QInt(80))
                         THEN "seca/necrótica" ELSE "normal",
     deformaciones   |-> QGt(f.texture_score, Dec(30))]

\* The bundle with >= in place of > in the threshold of "manchas".
CaracteristicasUmbralInclusivo(color, f) ==
    [color_principal |-> color,
     manchas         |-> IF ~QLt(f.brown_spot_area, Dec(8))
                         THEN "circulares marrones" ELSE "no significativas",
     borde           |-> IF QGt(f.texture_score, Dec(25))
                         THEN "irregular" ELSE "regular",
     textura         |-> IF QLt(f.v_mean, QInt(80))
                         THEN "seca/necrótica" ELSE "normal",
     deformaciones   |-> QGt(f.texture_score, Dec(30))]

\* Lines 170-176: color_principal is the one the rule set; the other four
\* are read off the measurements.
Caracteristicas(color, f) ==
    [color_principal |-> color,
     manchas         |-> IF QGt(f.brown_spot_area, Dec(8))
                         THEN "circulares marrones" ELSE "no significativas",
     borde           |-> IF QGt(f.texture_score, Dec(25))
                         THEN "irregular" ELSE "regular",
     textura         |-> IF QLt(f.v_mean, QInt(80))
                         THEN "seca/necrótica" ELSE "normal",
     deformaciones   |-> QGt(f.texture_score, Dec(30))]

\* The debug object with dark_spot_area filled from brown_spot_area.
DebugCopiado(m, f) ==
    [mean_rgb            |-> [r |-> QRound(m.r_mean, 2),
                              g |-> QRound(m.g_mean, 2),
                              b |-> QRound(m.b_mean, 2)],
     brown_spot_area     |-> QRound(f.brown_spot_area, 4),
     dark_spot_area      |-> QRound(f.brown_spot_area, 4),
     yellow_area         |-> QRound(f.yellow_area, 4),
     healthy_green_ratio |-> QRound(f.healthy_green_ratio, 4),
     texture_score       |-> QRound(f.texture_score, 4),
     saturation_avg      |-> QRound(f.saturation_avg, 4),
     hsv_mean            |-> [h |-> QRound(m.h_mean, 2),
                              s |-> QRound(m.s_mean, 2),
                              v |-> QRound(m.v_mean, 2)]]

\* Lines 188-197.
Debug(m, f) ==
    [mean_rgb            |-> [r |-> QRound(m.r_mean, 2),
                              g |-> QRound(m.g_mean, 2),
                              b |-> QRound(m.b_mean, 2)],
     brown_spot_area     |-> QRound(f.brown_spot_area, 4),
     dark_spot_area      |-> QRound(f.dark_spot_area, 4),
     yellow_area         |-> QRound(f.yellow_area, 4),
     healthy_green_ratio |-> QRound(f.healthy_green_ratio, 4),
     texture_score       |-> QRound(f.texture_score, 4),
     saturation_avg      |-> QRound(f.saturation_avg, 4),
     hsv_mean            |-> [h |-> QRound(m.h_mean, 2),
                              s |-> QRound(m.s_mean, 2),
                              v |-> QRound(m.v_mean, 2)]]

\* Lines 91-200: the result dict built from the measurements.  The key
\* "debug" is present only when the debug flag is set.
Diagnosticar(m, debug) ==
    LET f    == Metricas(m)
        rama == Decidir(f)
        res  == [estado_general |-> rama.estado_general,
                 probabilidad   |-> Probabilidad(rama.confianza),
                 caracteristicas_detectadas |->
                     Caracteristicas(rama.color_principal, f),
                 posible_enfermedad |-> rama.posible_enfermedad]
    IN  IF debug
        THEN [estado_general |-> res.estado_general,
              probabilidad   |-> res.probabilidad,
              caracteristicas_detectadas |-> res.caracteristicas_detectadas,
              posible_enfermedad |-> res.posible_enfermedad,
              debug          |-> Debug(m, f)]
        ELSE res

(***************************************************************************)
(* analizar_hoja as a whole, lines 32-205.  The outcome is a return value  *)
(* or a raised exception (the except clause of lines 202-205 logs and      *)
(* re-raises).  Image.open raises UnidentifiedImageError for bytes it      *)
(* cannot identify, the empty byte string included; it reads only the      *)
(* header, so pixel data that is cut short raises OSError when the image   *)
(* is loaded by convert or np.array (lines 43-47).  There is no test of    *)
(* the image's dimensions or of the length of the bytes.                   *)
(***************************************************************************)
Return(valor) ==
    [tipo |-> "return", valor |-> valor]

Raise(clase, msg) ==
    [tipo |-> "raise", clase |-> clase, msg |-> msg]

analizar_hoja(image_bytes, debug) ==
    IF image_bytes.clase \in {"vacio", "no_imagen"}
    THEN Raise("UnidentifiedImageError", "cannot identify image file")
    ELSE IF image_bytes.clase = "truncada"
    THEN Raise("OSError", "image file is truncated")
    ELSE Return(Diagnosticar(Extraer(image_bytes.img), debug))

(***************************************************************************)
(* State.  pc, peticion and respuesta are the requests the HTTP host has   *)
(* in flight at POST /analizar-hoja, one entry per execution context.      *)
(* medidas, modo and resultado are calls of the decision part of           *)
(* analizar_hoja (lines 91-200) on given measurements.                     *)
(***************************************************************************)
VARIABLES pc, peticion, respuesta, medidas, modo, resultado

vars == <<pc, peticion, respuesta, medidas, modo, resultado>>

varsEndpoint == <<pc, peticion, respuesta>>

varsDecision == <<medidas, modo, resultado>>

(***************************************************************************)
(* Uploads.                                                                *)
(***************************************************************************)
\* The number of requests the host has in flight at once in the concurrent
\* specification.
NumPeticiones == 2

\* The largest number of 5 % spot blocks on a spotted leaf.
MaxManchas == 3

\* Probes next to a threshold t are taken at t and t + 1 / Resolucion.
Resolucion == 30000

Px(r, g, b, h, s, v) ==
    [r |-> r, g |-> g, b |-> b, h |-> h, s |-> s, v |-> v]

\* RGB colours with the 8-bit HSV value of cv2.COLOR_BGR2HSV
\* (H = hue / 2, S = 255 * (max - min) / max, V = max).
VerdeVivo     == Px(0, 128, 0, 60, 255, 128)
VerdeApagado  == Px(67, 80, 67, 60, 41, 80)
VerdeMedio    == Px(78, 100, 78, 60, 56, 100)
VerdeAmarillo == Px(200, 240, 0, 35, 255, 240)
Marron        == Px(100, 50, 0, 15, 255, 100)
MarronOscuro  == Px(40, 20, 0, 15, 255, 40)
Negro         == Px(10, 10, 10, 0, 0, 10)
Amarillo      == Px(200, 200, 0, 30, 255, 200)
Gris          == Px(200, 200, 200, 0, 0, 200)

Paleta ==
    {VerdeVivo, VerdeApagado, VerdeMedio, VerdeAmarillo, Marron,
     MarronOscuro, Negro, Amarillo, Gris}

Lados ==
    {10, 50, 60}

\* A bitmap of one colour; a 5x5 Gaussian blur leaves it as it is and
\* Canny finds no edge in it.
Uniforme(w, h, c) ==
    [width |-> w, height |-> h, pix |-> <<[n |-> w * h, c |-> c]>>, edges |-> 0]

\* A leaf of colour base with k spot blocks of colour mancha, each block
\* a twentieth of the image.
Manchada(w, h, base, mancha, k, bordes) ==
    LET bloque == (w * h) \div 20
    IN  [width |-> w, height |-> h,
         pix |-> <<[n |-> w * h - k * bloque, c |-> base],
                   [n |-> k * bloque, c |-> mancha]>>,
         edges |-> bordes]

Bitmaps ==
    {Uniforme(w, h, c) : w \in Lados, h \in Lados, c \in Paleta}
    \cup
    UNION {{Manchada(w, h, VerdeVivo, c, k, 0),
            Manchada(w, h, VerdeVivo, c, k, (7 * w * h) \div 20)} :
           w \in Lados, h \in Lados, c \in {Marron, Negro, Amarillo},
           k \in 1..MaxManchas}

Vacio ==
    [clase |-> "vacio", len |-> 0]

NoImagen ==
    [clase |-> "no_imagen", len |-> 1000]

Truncada ==
    [clase |-> "truncada", len |-> 1000]

Bitmap(img, len) ==
    [clase |-> "bitmap", len |-> len, img |-> img]

\* A content type is the sequence of its characters; None and "" are both
\* the empty sequence (the code tests only their truth value).
SinContentType == << >>
ImagePng  == <<"i", "m", "a", "g", "e", "/", "p", "n", "g">>
TextPlain == <<"t", "e", "x", "t", "/", "p", "l", "a", "i", "n">>

Subida(ct, bytes) ==
    [content_type |-> ct, bytes |-> bytes]

Subidas ==
    {Subida(ct, b) :
        ct \in {SinContentType, ImagePng, TextPlain},
        b \in {Vacio, NoImagen, Truncada}
              \cup {Bitmap(img, len) : img \in Bitmaps,
                                       len \in {2048, 10 * 1024 * 1024 + 1}}}

\* The uploads of the concurrent specification: few, so that several
\* requests can be in flight.
SubidasConcurrentes ==
    {Subida(ct, b) :
        ct \in {ImagePng, TextPlain},
        b \in {NoImagen,
               Bitmap(Uniforme(10, 10, VerdeVivo), 2048),
               Bitmap(Manchada(50, 50, VerdeVivo, Marron, MaxManchas, 0), 2048)}}

(***************************************************************************)
(* POST /analizar-hoja: analizar_hoja_endpoint, lines 222-255.  The        *)
(* coroutine runs on the event loop and can be suspended only at           *)
(* "await file.read()" (line 235): the code up to it is one step, the      *)
(* code after it another.                                                  *)
(***************************************************************************)
SinPeticion ==
    [libre |-> TRUE]

SinRespuesta ==
    [pendiente |-> TRUE]

JSONResponse(content, status_code) ==
    [status_code |-> status_code, content |-> content]

\* str.startswith
StartsWith(str, prefijo) ==
    /\ Len(str) >= Len(prefijo)
    /\ SubSeq(str, 1, Len(prefijo)) = prefijo

\* Lines 224-233: the content type test; the request then waits at line 235.
Recibir(r, subidas) ==
    /\ r \in DOMAIN pc
    /\ pc[r] = "libre"
    /\ \E u \in subidas, d \in BOOLEAN :
          /\ peticion' = [peticion EXCEPT ![r] =
                             [content_type |-> u.content_type,
                              bytes |-> u.bytes, debug |-> d]]
          /\ IF /\ Len(u.content_type) > 0
                /\ ~StartsWith(u.content_type, <<"i", "m", "a", "g", "e", "/">>)
             THEN /\ respuesta' = [respuesta EXCEPT ![r] =
                        JSONResponse([error |-> "El archivo debe ser una imagen"], 400)]
                  /\ pc' = [pc EXCEPT ![r] = "respondida"]
             ELSE /\ respuesta' = respuesta
                  /\ pc' = [pc EXCEPT ![r] = "leyendo"]
    /\ UNCHANGED varsDecision

\* The bytes are read from a buffer that request 1 fills while it is in
\* flight.
BytesCompartidos(r) ==
    IF pc[1] = "libre" THEN peticion[r].bytes ELSE peticion[1].bytes

\* Line 235: image_bytes = await file.read(), the bytes of the request's
\* own upload.
BytesLeidos(r) ==
    peticion[r].bytes

\* Lines 235-255: the empty test, the analysis and the response.
Procesar(r) ==
    /\ r \in DOMAIN pc
    /\ pc[r] = "leyendo"
    /\ LET image_bytes == BytesLeidos(r)
           salida      == analizar_hoja(image_bytes, peticion[r].debug)
       IN  respuesta' = [respuesta EXCEPT ![r] =
               IF image_bytes.len = 0
               THEN JSONResponse([error |-> "El archivo está vacío"], 400)
               ELSE IF salida.tipo = "return"
               THEN JSONResponse(salida.valor, 200)
               ELSE IF salida.clase = "UnidentifiedImageError"
               THEN JSONResponse(
                        [error |-> "No se pudo procesar la imagen. Asegúrate de que sea un archivo de imagen válido"],
                        400)
               ELSE JSONResponse(
                        [error |-> "Error al procesar la imagen: " \o salida.msg],
                        500)]
    /\ pc' = [pc EXCEPT ![r] = "respondida"]
    /\ UNCHANGED <<peticion, varsDecision>>

\* The response is sent and the coroutine's locals are gone.
Cerrar(r) ==
    /\ r \in DOMAIN pc
    /\ pc[r] = "respondida"
    /\ pc' = [pc EXCEPT ![r] = "libre"]
    /\ peticion' = [peticion EXCEPT ![r] = SinPeticion]
    /\ respuesta' = [respuesta EXCEPT ![r] = SinRespuesta]
    /\ UNCHANGED varsDecision

SinLlamadas ==
    /\ medidas = << >>
    /\ modo = << >>
    /\ resultado = << >>

\* One request at a time, any upload.
Init ==
    /\ pc = [r \in {1} |-> "libre"]
    /\ peticion = [r \in {1} |-> SinPeticion]
    /\ respuesta = [r \in {1} |-> SinRespuesta]
    /\ SinLlamadas

Next ==
    \/ \E r \in 1..NumPeticiones : Recibir(r, Subidas)
    \/ \E r \in 1..NumPeticiones : Procesar(r)
    \/ \E r \in 1..NumPeticiones : Cerrar(r)

Spec == Init /\ [][Next]_vars

InitConcurrente ==
    /\ pc = [r \in 1..NumPeticiones |-> "libre"]
    /\ peticion = [r \in 1..NumPeticiones |-> SinPeticion]
    /\ respuesta = [r \in 1..NumPeticiones |-> SinRespuesta]
    /\ SinLlamadas

NextConcurrente ==
    \/ \E r \in 1..NumPeticiones : Recibir(r, SubidasConcurrentes)
    \/ \E r \in 1..NumPeticiones : Procesar(r)
    \/ \E r \in 1..NumPeticiones : Cerrar(r)

SpecConcurrente == InitConcurrente /\ [][NextConcurrente]_vars

(***************************************************************************)
(* Properties of the endpoint.                                             *)
(***************************************************************************)
\* What the specification of the system asks of an upload and the code
\* does not state: the minimum side of an image and the largest file.
MinDimension == 50

MaxFileSize ==
    10 * 1024 * 1024

Respondida(r) ==
    pc[r] = "respondida"

\* The request got past the content type test and the empty test, so
\* analizar_hoja was called with its bytes.
LlamoAnalisis(r) ==
    /\ Respondida(r)
    /\ \/ Len(peticion[r].content_type) = 0
       \/ StartsWith(peticion[r].content_type, <<"i", "m", "a", "g", "e", "/">>)
    /\ peticion[r].bytes.len > 0

EsBitmap(r) ==
    peticion[r].bytes.clase = "bitmap"

TraeDiagnostico(r) ==
    "estado_general" \in DOMAIN respuesta[r].content

ErrorDeCliente(r) ==
    /\ respuesta[r].status_code >= 400
    /\ respuesta[r].status_code < 500
    /\ DOMAIN respuesta[r].content = {"error"}

ErrorDeServidor(r) ==
    /\ respuesta[r].status_code = 500
    /\ DOMAIN respuesta[r].content = {"error"}

VerdeSaludable(p) ==
    InRange(p, <<35, 30, 60>>, <<85, 255, 255>>)

UniformeVerde(r) ==
    /\ EsBitmap(r)
    /\ Len(peticion[r].bytes.img.pix) = 1
    /\ VerdeSaludable(peticion[r].bytes.img.pix[1].c)

\* C4: an image of one colour inside the healthy-green HSV range
\* (H 35..85, S 30..255, V 60..255) has healthy_green_ratio = 1.0 and is
\* classified "Sana".
C4_UniformGreenIsSana ==
    \A r \in DOMAIN pc :
        LlamoAnalisis(r) /\ UniformeVerde(r)
            => /\ Extraer(peticion[r].bytes.img).healthy_green_ratio = QInt(1)
               /\ TraeDiagnostico(r)
               /\ respuesta[r].content.estado_general = "Sana"

\* C5: an image that decodes but has a side below the minimum of 50 pixels
\* is refused with TooSmallError and gets no diagnosis.
C5_SmallImageRejected ==
    \A r \in DOMAIN pc :
        /\ LlamoAnalisis(r)
        /\ EsBitmap(r)
        /\ \/ peticion[r].bytes.img.width < MinDimension
           \/ peticion[r].bytes.img.height < MinDimension
        => /\ analizar_hoja(peticion[r].bytes, peticion[r].debug).tipo = "raise"
           /\ analizar_hoja(peticion[r].bytes, peticion[r].debug).clase = "TooSmallError"
           /\ ~TraeDiagnostico(r)

\* C6: an empty file, a content type that is not an image, bytes that do
\* not decode as an image, an image below the minimum dimensions and a file
\* above 10 MiB each end in a 4xx response with an error message and no
\* diagnosis; any other failure ends in a 500; every request ends in
\* exactly one of a diagnosis, a client error, a server error.  (A file
\* whose pixel data is cut short is counted here with the other failures.)
C6_ErrorSurface ==
    \A r \in DOMAIN pc :
        Respondida(r) =>
            LET b  == peticion[r].bytes
                ct == peticion[r].content_type
                rechazable ==
                    \/ b.len = 0
                    \/ Len(ct) > 0 /\ ~StartsWith(ct, <<"i", "m", "a", "g", "e", "/">>)
                    \/ b.clase = "no_imagen"
                    \/ b.len > MaxFileSize
                    \/ /\ b.clase = "bitmap"
                       /\ \/ b.img.width < MinDimension
                          \/ b.img.height < MinDimension
            IN  /\ rechazable => ErrorDeCliente(r)
                /\ \/ respuesta[r].status_code = 200 /\ TraeDiagnostico(r)
                   \/ ErrorDeCliente(r)
                   \/ ErrorDeServidor(r)

\* C8: two analysis calls with the same bytes and the same debug flag give
\* the same response, however the requests interleave, and a finished
\* request leaves nothing behind.
C8_SameInputSameResult ==
    /\ \A r1, r2 \in DOMAIN pc :
          /\ LlamoAnalisis(r1)
          /\ LlamoAnalisis(r2)
          /\ peticion[r1].bytes = peticion[r2].bytes
          /\ peticion[r1].debug = peticion[r2].debug
          => respuesta[r1] = respuesta[r2]
    /\ \A r \in DOMAIN pc :
          pc[r] = "libre" => peticion[r] = SinPeticion /\ respuesta[r] = SinRespuesta

\* Two requests answered side by side with a diagnosis for the same bytes
\* and flag, while the two differ in content type.
C8_Witness ==
    /\ 2 \in DOMAIN pc
    /\ LlamoAnalisis(1)
    /\ LlamoAnalisis(2)
    /\ peticion[1].bytes = peticion[2].bytes
    /\ peticion[1].debug = peticion[2].debug
    /\ peticion[1].debug
    /\ TraeDiagnostico(1)
    /\ TraeDiagnostico(2)

(***************************************************************************)
(* The decision part of analizar_hoja on given measurements.               *)
(***************************************************************************)
Eps ==
    Q(1, Resolucion)

\* A threshold and the value just above it.
Cerca(t) ==
    {t, QAdd(t, Eps)}

ValoresBrown ==
    {QInt(0), QAdd(Dec(13), Eps), QInt(1)} \cup Cerca(Dec(8)) \cup Cerca(Dec(12))

ValoresDark ==
    {QInt(0), QInt(1)} \cup Cerca(Dec(6)) \cup Cerca(Dec(10))

ValoresYellow ==
    {QInt(0), QInt(1)} \cup Cerca(Dec(25))

ValoresGreen ==
    {QInt(0), Dec(50), QAdd(Dec(65), Eps), QInt(1)}

\* saturation_avg is s_mean / 255: 0.20 is s_mean = 51, 0.25 is 63.75.
ValoresSMean ==
    {QInt(0), QInt(51), Q(255, 4), QInt(255)}

ValoresTexture ==
    {QInt(0), QAdd(Dec(25), Eps), Dec(30), QInt(1)}

ValoresVMean ==
    {QInt(0), QInt(60), QInt(80), QInt(100)}

QLe(a, b) ==
    ~QLt(b, a)

\* What the masks of lines 72-87 allow of one image: the green mask shares
\* no pixel with the brown mask (H) nor with the dark mask (V), the yellow
\* mask none with the dark mask (V); a pixel of a mask has the V and the S
\* of the mask's range, a pixel outside the dark mask has V > 50.
Realizable(m) ==
    LET uno == QInt(1)
        K(k, x) == QMul(QInt(k), x)
        Resto(k, x) == QMul(QInt(k), [n |-> x.d - x.n, d |-> x.d])
    IN  /\ QLe(QAdd(m.healthy_green_ratio, m.brown_spot_area), uno)
        /\ QLe(QAdd(m.healthy_green_ratio, m.dark_spot_area), uno)
        /\ QLe(QAdd(m.yellow_area, m.dark_spot_area), uno)
        /\ QLe(K(60, m.healthy_green_ratio), m.v_mean)
        /\ QLe(K(100, m.yellow_area), m.v_mean)
        /\ QLe(K(20, m.brown_spot_area), m.v_mean)
        /\ QLe(Resto(51, m.dark_spot_area), m.v_mean)
        /\ QLe(m.v_mean, QAdd(K(50, m.dark_spot_area), Resto(255, m.dark_spot_area)))
        /\ QLe(m.v_mean, QAdd(K(120, m.brown_spot_area), Resto(255, m.brown_spot_area)))
        /\ QLe(K(30, m.healthy_green_ratio), m.s_mean)
        /\ QLe(K(40, m.brown_spot_area), m.s_mean)
        /\ QLe(K(40, m.yellow_area), m.s_mean)

Medida(brown, dark, yellow, green, smean, texture, vmean) ==
    [r_mean              |-> Q(100, 3),
     g_mean              |-> Q(400, 3),
     b_mean              |-> Q(50, 3),
     h_mean              |-> Q(181, 3),
     s_mean              |-> smean,
     v_mean              |-> vmean,
     texture_score       |-> texture,
     brown_spot_area     |-> brown,
     dark_spot_area      |-> dark,
     yellow_area         |-> yellow,
     healthy_green_ratio |-> green]

Medidas ==
    {m \in {Medida(br, dk, ye, gr, sm, tx, vm) :
               br \in ValoresBrown, dk \in ValoresDark, ye \in ValoresYellow,
               gr \in ValoresGreen, sm \in ValoresSMean, tx \in ValoresTexture,
               vm \in ValoresVMean} : Realizable(m)}

\* The measurements of the pairs: one value on each side of each secondary
\* threshold and of the thresholds of the rules.
MedidasPares ==
    {m \in {Medida(br, dk, ye, gr, QInt(128), tx, vm) :
               br \in {Dec(5), Dec(10)}, dk \in {QInt(0), Dec(20)},
               ye \in {QInt(0), Dec(30)}, gr \in {Dec(30), Dec(80)},
               tx \in {Dec(10), Dec(27), Dec(35)},
               vm \in {QInt(70), QInt(150)}} : Realizable(m)}

SinResultado ==
    [pendiente |-> TRUE]

SinPeticiones ==
    /\ pc = << >>
    /\ peticion = << >>
    /\ respuesta = << >>

\* Lines 91-200 run on the measurements of call c.
Clasificar(c) ==
    /\ c \in DOMAIN resultado
    /\ resultado[c] = SinResultado
    /\ resultado' = [resultado EXCEPT ![c] = Diagnosticar(medidas[c], modo[c])]
    /\ UNCHANGED <<medidas, modo, varsEndpoint>>

\* One call on any measurements of the grid.
InitDecision ==
    /\ medidas \in [{1} -> Medidas]
    /\ modo \in [{1} -> BOOLEAN]
    /\ resultado = [c \in {1} |-> SinResultado]
    /\ SinPeticiones

NextDecision ==
    \E c \in {1, 2} : Clasificar(c)

SpecDecision == InitDecision /\ [][NextDecision]_vars

\* Two calls, each on its own measurements.
InitPares ==
    /\ medidas \in [{1, 2} -> MedidasPares]
    /\ modo = [c \in {1, 2} |-> FALSE]
    /\ resultado = [c \in {1, 2} |-> SinResultado]
    /\ SinPeticiones

SpecPares == InitPares /\ [][NextDecision]_vars

(***************************************************************************)
(* Properties of the decision part.                                        *)
(***************************************************************************)
Clasificado(c) ==
    c \in DOMAIN resultado /\ resultado[c] # SinResultado

\* The predicate of rule i of the cascade; rule 8 is the default.
ReglaCumple(i, f) ==
    CASE i = 1 -> /\ QGt(f.healthy_green_ratio, Dec(65))
                  /\ QLt(f.brown_spot_area, Dec(8))
                  /\ QLt(f.dark_spot_area, Dec(5))
                  /\ QLt(f.yellow_area, Dec(15))
                  /\ QGt(f.saturation_avg, Dec(25))
      [] i = 2 -> QGt(f.brown_spot_area, Dec(12)) \/ QGt(f.dark_spot_area, Dec(10))
      [] i = 3 -> QGt(f.brown_spot_area, Dec(8)) \/ QGt(f.dark_spot_area, Dec(6))
      [] i = 4 -> QGt(f.yellow_area, Dec(25))
      [] i = 5 -> QGt(f.texture_score, Dec(30))
      [] i = 6 -> QLt(f.saturation_avg, Dec(20)) /\ QLt(f.v_mean, QInt(100))
      [] i = 7 -> QGt(f.total_damage, Dec(10)) \/ QLt(f.healthy_green_ratio, Dec(50))
      [] OTHER -> TRUE

\* The category, the probable cause and the confidence formula of rule i.
ReglaSalida(i, f) ==
    CASE i = 1 -> <<"Sana", "Ninguna",
                    QMin(Dec(95), QAdd(Dec(70), QMul(f.healthy_green_ratio, Dec(25))))>>
      [] i = 2 -> <<"Enfermedad fúngica",
                    "Posible Moniliasis, Phytophthora o Antracnosis",
                    QMin(Dec(92), QAdd(Dec(65), QMul(f.total_damage, Dec(150))))>>
      [] i = 3 -> <<"Posible infección fúngica inicial",
                    "Etapa temprana de hongo foliar o Cercospora",
                    QAdd(Dec(70), QMul(f.brown_spot_area, QInt(2)))>>
      [] i = 4 -> <<"Deficiencia nutricional",
                    "Posible falta de nitrógeno o magnesio",
                    QAdd(Dec(75), QMul(f.yellow_area, Dec(60)))>>
      [] i = 5 -> <<"Daño físico o plaga",
                    "Posible ataque de insectos masticadores",
                    QAdd(Dec(68), QMul(f.texture_score, Dec(60)))>>
      [] i = 6 -> <<"Estrés o envejecimiento",
                    "Senescencia natural o estrés hídrico",
                    Dec(70)>>
      [] i = 7 -> <<"Posible estrés leve",
                    "Monitorear evolución - síntomas no concluyentes",
                    QAdd(Dec(60), QMul(f.total_damage, Dec(80)))>>
      [] OTHER -> <<"Sana", "Ninguna", Dec(85)>>

PrimeraRegla(f) ==
    CHOOSE i \in 1..8 :
        ReglaCumple(i, f) /\ \A j \in 1..(i - 1) : ~ReglaCumple(j, f)

Categorias ==
    {"Sana", "Enfermedad fúngica", "Posible infección fúngica inicial",
     "Deficiencia nutricional", "Daño físico o plaga",
     "Estrés o envejecimiento", "Posible estrés leve"}

\* C1: the category, the probable cause and the confidence returned are
\* those of the lowest-numbered rule whose predicate holds, whatever
\* later rules hold too.
C1_FirstMatchWins ==
    \A c \in DOMAIN resultado :
        Clasificado(c) =>
            LET f == Metricas(medidas[c])
                s == ReglaSalida(PrimeraRegla(f), f)
            IN  /\ resultado[c].estado_general = s[1]
                /\ resultado[c].posible_enfermedad = s[2]
                /\ resultado[c].probabilidad
                     = QRound(QMin(Dec(98), QMax(Dec(50), s[3])), 2)

\* Rules 2, 3 and 7 hold together and the result is that of rule 2.
C1_Witness ==
    \E c \in DOMAIN resultado :
        /\ Clasificado(c)
        /\ ~ReglaCumple(1, Metricas(medidas[c]))
        /\ ReglaCumple(2, Metricas(medidas[c]))
        /\ ReglaCumple(3, Metricas(medidas[c]))
        /\ ReglaCumple(7, Metricas(medidas[c]))
        /\ resultado[c].estado_general = "Enfermedad fúngica"

\* C2: the cascade gives every measurement exactly one category of the
\* closed set; estado_general is never left at its initial "".
C2_Totality ==
    \A c \in DOMAIN resultado :
        Clasificado(c) =>
            /\ resultado[c].estado_general \in Categorias
            /\ resultado[c].posible_enfermedad # ""
            /\ resultado[c].caracteristicas_detectadas.color_principal # ""

\* No rule from 1 to 7 holds and the default gives "Sana".
C2_Witness ==
    \E c \in DOMAIN resultado :
        /\ Clasificado(c)
        /\ \A i \in 1..7 : ~ReglaCumple(i, Metricas(medidas[c]))
        /\ resultado[c].estado_general = "Sana"

\* C3: probabilidad is between 0.50 and 0.98 and is a whole number of
\* hundredths, whichever rule fired.
C3_ProbabilidadBounds ==
    \A c \in DOMAIN resultado :
        Clasificado(c) =>
            /\ QLe(Dec(50), resultado[c].probabilidad)
            /\ QLe(resultado[c].probabilidad, Dec(98))
            /\ 100 % resultado[c].probabilidad.d = 0

\* Rule 4 fired with a confidence formula above 0.98, and 0.98 is returned.
C3_Witness ==
    \E c \in DOMAIN resultado :
        /\ Clasificado(c)
        /\ resultado[c].estado_general = "Deficiencia nutricional"
        /\ QGt(ReglaSalida(4, Metricas(medidas[c]))[3], Dec(98))
        /\ resultado[c].probabilidad = Dec(98)

\* C7: when the debug object reports brown_spot_area above 0.12 or
\* dark_spot_area above 0.10, the category is "Enfermedad fúngica".
C7_DebugConsistent ==
    \A c \in DOMAIN resultado :
        /\ Clasificado(c)
        /\ "debug" \in DOMAIN resultado[c]
        /\ \/ QGt(resultado[c].debug.brown_spot_area, Dec(12))
           \/ QGt(resultado[c].debug.dark_spot_area, Dec(10))
        => resultado[c].estado_general = "Enfermedad fúngica"

\* A debug object whose brown_spot_area is above 0.12 and is not the
\* unrounded value.
C7_Witness ==
    \E c \in DOMAIN resultado :
        /\ Clasificado(c)
        /\ "debug" \in DOMAIN resultado[c]
        /\ QGt(resultado[c].debug.brown_spot_area, Dec(12))
        /\ resultado[c].debug.brown_spot_area # medidas[c].brown_spot_area
        /\ resultado[c].estado_general = "Enfermedad fúngica"

\* C10: a leaf reported "Sana" has brown_spot_area <= 0.08, dark_spot_area
\* <= 0.06 and yellow_area <= 0.25, no probable disease and no significant
\* spots.
C10_SanaSinManchas ==
    \A c \in DOMAIN resultado :
        Clasificado(c) /\ resultado[c].estado_general = "Sana" =>
            /\ QLe(medidas[c].brown_spot_area, Dec(8))
            /\ QLe(medidas[c].dark_spot_area, Dec(6))
            /\ QLe(medidas[c].yellow_area, Dec(25))
            /\ resultado[c].posible_enfermedad = "Ninguna"
            /\ resultado[c].caracteristicas_detectadas.manchas = "no significativas"

\* "Sana" by the default rule with brown_spot_area at 0.08 exactly.
C10_Witness ==
    \E c \in DOMAIN resultado :
        /\ Clasificado(c)
        /\ resultado[c].estado_general = "Sana"
        /\ medidas[c].brown_spot_area = Dec(8)
        /\ ~ReglaCumple(1, Metricas(medidas[c]))

(***************************************************************************)
(* Properties of pairs of calls.                                           *)
(***************************************************************************)
Atributos(c) ==
    resultado[c].caracteristicas_detectadas

\* C9: every field of caracteristicas_detectadas, color_principal included,
\* is fixed by the features its secondary threshold reads (brown_spot_area,
\* texture_score, v_mean) and not by the rule that fired: two calls that
\* agree on those features agree on the field.
C9_AllAttributesIndependent ==
    \A a, b \in DOMAIN resultado :
        Clasificado(a) /\ Clasificado(b) =>
            /\ medidas[a].brown_spot_area = medidas[b].brown_spot_area
                 => Atributos(a).manchas = Atributos(b).manchas
            /\ medidas[a].texture_score = medidas[b].texture_score
                 => /\ Atributos(a).borde = Atributos(b).borde
                    /\ Atributos(a).deformaciones = Atributos(b).deformaciones
            /\ medidas[a].v_mean = medidas[b].v_mean
                 => Atributos(a).textura = Atributos(b).textura
            /\ /\ medidas[a].brown_spot_area = medidas[b].brown_spot_area
               /\ medidas[a].texture_score = medidas[b].texture_score
               /\ medidas[a].v_mean = medidas[b].v_mean
                 => Atributos(a).color_principal = Atributos(b).color_principal

\* C9 as amended: manchas, borde, textura and deformaciones are fixed by
\* the feature their own threshold reads, whatever rule fired;
\* color_principal is fixed by the rule that fired, so two calls with the
\* same estado_general have the same color_principal.
C9_AttributesByThreshold ==
    \A a, b \in DOMAIN resultado :
        Clasificado(a) /\ Clasificado(b) =>
            /\ medidas[a].brown_spot_area = medidas[b].brown_spot_area
                 => Atributos(a).manchas = Atributos(b).manchas
            /\ medidas[a].texture_score = medidas[b].texture_score
                 => /\ Atributos(a).borde = Atributos(b).borde
                    /\ Atributos(a).deformaciones = Atributos(b).deformaciones
            /\ medidas[a].v_mean = medidas[b].v_mean
                 => Atributos(a).textura = Atributos(b).textura
            /\ resultado[a].estado_general = resultado[b].estado_general
                 => Atributos(a).color_principal = Atributos(b).color_principal

\* Two calls that agree on brown_spot_area, texture_score and v_mean, for
\* which different rules fired.
C9_Witness ==
    /\ 2 \in DOMAIN resultado
    /\ Clasificado(1)
    /\ Clasificado(2)
    /\ medidas[1].brown_spot_area = medidas[2].brown_spot_area
    /\ QGt(medidas[1].brown_spot_area, Dec(8))
    /\ medidas[1].texture_score = medidas[2].texture_score
    /\ medidas[1].v_mean = medidas[2].v_mean
    /\ resultado[1].estado_general = "Enfermedad fúngica"
    /\ resultado[2].estado_general = "Posible infección fúngica inicial"
    /\ Atributos(1).manchas = "circulares marrones"
    /\ Atributos(2).manchas = "circulares marrones"

=============================================================================
